---- MODULE Spec2Model ----
(***************************************************************************)
(* Model of the App component (src/unnamed/part_000): the library of       *)
(* books, the synchronisation state, and the asynchronous handlers that    *)
(* pull, push, upload, delete and generate audio.                          *)
(*                                                                         *)
(* React semantics kept by the model:                                      *)
(*  - a handler runs to its first await as one step; what follows the      *)
(*    await is a second step, taken when the awaited request resolves;     *)
(*  - after the await the handler still reads the values of `books`,       *)
(*    `selectedBook` and `syncState` of the render it was created in (the  *)
(*    closure), so each request in flight carries those values;            *)
(*  - setX(prev => ...) reads the current state, setX(value) overwrites;   *)
(*  - the effect of lines 73-77 runs again whenever refreshLibrary's       *)
(*    dependencies (provider, githubToken, gistId, roomId) change.         *)
(*                                                                         *)
(* Titles, authors, texts and the narration voice are payload no handler   *)
(* branches on; a book is its id, its chapters and its creation time.      *)
(* hasLoadedInitially is written (lines 60, 92) and never read, and is     *)
(* left out. Book ids are Date.now() values; toString is injective and     *)
(* the ids stay numbers.                                                   *)
(***************************************************************************)
EXTENDS Integers, Sequences, FiniteSets, TLC

\* ------------------------------------------------------------------ bounds
MaxTime == 2        \* Date.now() ranges over 1..MaxTime
MaxInFlight == 2    \* remote requests (pull, push, extraction, generation) in flight
MaxTimers == 1      \* pending setTimeout callbacks of handleSyncUpdate
MaxBooks == 2       \* books in the Library after an upload
MaxSteps == 9       \* handler runs and completions explored from startup

\* ------------------------------------------------------------------ values
Null == "null"
NoTime == 0         \* lastSynced: null

DefaultRoom == "dastan_internal_shared_v2_9912"
OtherRoom == "room2"
Token == "ghp_token"
Gist == "gist1"
AudioUrl == "blob:audio"

IDLE == "IDLE"
EXTRACTING == "EXTRACTING"
GENERATING_AUDIO == "GENERATING_AUDIO"
ERROR == "ERROR"

Chapter(bookId, i, audio) == [id |-> <<bookId, i>>, audioUrl |-> audio]

Book(bookId, n) ==
  [id |-> bookId,
   chapters |-> [i \in 1..n |-> Chapter(bookId, i - 1, Null)],
   createdAt |-> bookId]

\* Books other clients have pushed to the remote store.
RemoteBookA == Book(101, 2)
RemoteBookB == Book(102, 1)

\* The snapshots a pull may find in the remote store.
RemoteSnapshots == { <<RemoteBookA, RemoteBookB>>, <<RemoteBookA>>, <<>> }

\* ------------------------------------------------------------------ state
VARIABLES
  books,              \* useState<Book[]>
  syncState,          \* useState<SyncState>
  selectedBook,       \* <<>> (null) or <<book>>
  activeChapter,      \* <<>> (null) or <<chapter>>
  status,             \* ProcessingStatus
  showUploader,
  showSyncModal,
  localStorage,       \* the four sync_* keys
  mounted,            \* the effect of lines 73-77 has run once
  now,                \* Date.now()
  pulls,              \* refreshLibrary calls awaiting SyncService.pull*
  pushes,             \* persistLibrary calls awaiting SyncService.push*
  uploads,            \* handleUpload calls awaiting extractAndSplitText
  gens,               \* handleChapterPlay calls awaiting generateAudio
  timers,             \* setTimeout(() => refreshLibrary(), 100) pending
  steps,              \* history: steps taken since startup
  downgraded,         \* history: a pull failed UNAUTHORIZED and the user has not reconfigured since
  event               \* history: what the last step did

vars == <<books, syncState, selectedBook, activeChapter,
          status, showUploader, showSyncModal, localStorage, mounted, now,
          pulls, pushes, uploads, gens, timers, steps, downgraded, event>>

\* The part of syncState refreshLibrary and persistLibrary read from their closure.
Config(ss) ==
  [provider |-> ss.provider, roomId |-> ss.roomId,
   githubToken |-> ss.githubToken, gistId |-> ss.gistId]

\* What a step records about itself.
Event(kind, issued, pushed, pulled, req) ==
  [kind |-> kind,        \* the handler or completion that ran
   issued |-> issued,    \* remote pull requests the step issued
   pushed |-> pushed,    \* <<snapshot>> handed to persistLibrary, or <<>>
   pulled |-> pulled,    \* <<snapshot>> a pull resolved with, or <<>>
   req |-> req]          \* the request in flight the step completed, or <<>>

\* localStorage as the app finds it at startup.
StoredConfigs ==
  { [provider |-> Null, roomId |-> Null, githubToken |-> Null, gistId |-> Null] }

InitialSyncState(ls) ==
  [provider |-> IF ls.provider # Null THEN ls.provider ELSE "public",
   roomId |-> IF ls.roomId # Null THEN ls.roomId ELSE DefaultRoom,
   githubToken |-> ls.githubToken,
   gistId |-> ls.gistId,
   lastSynced |-> NoTime,
   isSyncing |-> FALSE]

Init ==
  /\ localStorage \in StoredConfigs
  /\ syncState = InitialSyncState(localStorage)
  /\ books = <<>>
  /\ selectedBook = <<>>
  /\ activeChapter = <<>>
  /\ status = IDLE
  /\ showUploader = FALSE
  /\ showSyncModal = FALSE
  /\ mounted = FALSE
  /\ now = 1
  /\ pulls = <<>>
  /\ pushes = <<>>
  /\ uploads = <<>>
  /\ gens = <<>>
  /\ timers = <<>>
  /\ steps = 0
  /\ downgraded = FALSE
  /\ event = Event("init", 0, <<>>, <<>>, <<>>)

\* ------------------------------------------------------------------ helpers
InFlight == Len(pulls) + Len(pushes) + Len(uploads) + Len(gens)

NoEvent == Event("none", 0, <<>>, <<>>, <<>>)

\* History kept with the requests in flight: a pull remembers that a local
\* mutation was applied since it was issued, an extraction remembers the
\* books deleted since it was started.
MarkMutated(pl) == [j \in 1..Len(pl) |-> [pl[j] EXCEPT !.mutated = TRUE]]
MarkDeleted(ul, id) == [j \in 1..Len(ul) |-> [ul[j] EXCEPT !.deleted = @ \cup {id}]]

RemoveAt(s, i) == SubSeq(s, 1, i - 1) \o SubSeq(s, i + 1, Len(s))

\* The store refreshLibrary pulls from under a configuration (lines 51-55).
PullTarget(cfg) ==
  IF cfg.provider = "github" /\ cfg.githubToken # Null /\ cfg.gistId # Null
    THEN "github"
    ELSE IF cfg.provider = "public" THEN "public" ELSE "none"

\* The store persistLibrary pushes to under a configuration (lines 100-104).
PushTarget(cfg) ==
  IF cfg.provider = "github" /\ cfg.githubToken # Null /\ cfg.gistId # Null
    THEN "github"
    ELSE IF cfg.provider = "public" /\ cfg.roomId # Null THEN "public" ELSE "none"

\* refreshLibrary(silent) up to its await, run with closure configuration cfg
\* on the current state ss and requests in flight pl: the new syncState, the
\* new requests in flight and the number of requests issued.
RefreshLibrary(cfg, silent, ss, pl) ==
  IF PullTarget(cfg) # "none"
    THEN [syncState |-> [ss EXCEPT !.isSyncing = IF silent THEN @ ELSE TRUE],
          pulls |-> Append(pl, [cfg |-> cfg, mutated |-> FALSE]),
          issued |-> 1]
    ELSE [syncState |-> [ss EXCEPT !.isSyncing = FALSE],
          pulls |-> pl,
          issued |-> 0]

\* The effect of lines 73-77 after a render: it runs again (clearing the
\* interval and calling refreshLibrary()) when the configuration has changed.
RunEffect(old, ss, pl) ==
  IF Config(old) # Config(ss)
    THEN RefreshLibrary(Config(ss), FALSE, ss, pl)
    ELSE [syncState |-> ss, pulls |-> pl, issued |-> 0]

\* ------------------------------------------------------------------ actions
\* Every step counts against the exploration budget.
Budget ==
  /\ steps < MaxSteps
  /\ steps' = steps + 1

\* First run of the effect: refreshLibrary() and the interval (lines 73-77).
Mount ==
  /\ Budget
  /\ ~mounted
  /\ LET r == RefreshLibrary(Config(syncState), FALSE, syncState, pulls)
     IN /\ syncState' = r.syncState
        /\ pulls' = r.pulls
        /\ event' = Event("Mount", r.issued, <<>>, <<>>, <<>>)
  /\ mounted' = TRUE
  /\ UNCHANGED <<books, selectedBook, activeChapter, status,
                 showUploader, showSyncModal, localStorage, now, uploads,
                 pushes, gens, timers, downgraded>>

\* Time passes.
Tick ==
  /\ Budget
  /\ mounted
  /\ now < MaxTime
  /\ now' = now + 1
  /\ event' = NoEvent
  /\ UNCHANGED <<books, syncState, selectedBook,
                 activeChapter, status, showUploader, showSyncModal,
                 localStorage, mounted, pulls, pushes, uploads, gens, timers,
                 downgraded>>

\* The interval of line 75: refreshLibrary(true) of the current render.
IntervalTick ==
  /\ Budget
  /\ mounted
  /\ LET r == RefreshLibrary(Config(syncState), TRUE, syncState, pulls)
     IN /\ r.issued = 0 \/ InFlight < MaxInFlight
        /\ syncState' = r.syncState
        /\ pulls' = r.pulls
        /\ event' = Event("IntervalTick", r.issued, <<>>, <<>>, <<>>)
  /\ UNCHANGED <<books, selectedBook, activeChapter, status,
                 showUploader, showSyncModal, localStorage, mounted, now,
                 pushes, uploads, gens, timers, downgraded>>

\* PulledBooks with a fault: a null result clears the Library
\* (setBooks(remoteBooks || [])).
PulledBooksOrEmpty(remoteBooks, b) ==
  IF remoteBooks # <<>> THEN remoteBooks[1] ELSE <<>>

\* PulledBooks with a fault: an empty snapshot is taken for a missing one
\* (if (remoteBooks && remoteBooks.length)).
PulledBooksIfNonEmpty(remoteBooks, b) ==
  IF remoteBooks # <<>> /\ remoteBooks[1] # <<>> THEN remoteBooks[1] ELSE b

\* The Library after lines 57-63: remoteBooks is <<>> for null, <<S>> for a
\* snapshot S (an empty array is truthy, so an empty snapshot replaces too).
PulledBooks(remoteBooks, b) ==
  IF remoteBooks # <<>> THEN remoteBooks[1] ELSE b

\* syncState after lines 57-63.
\* PulledSyncState with a fault: an absent result leaves isSyncing as it is.
PulledSyncStateAbsentKept(remoteBooks, ss, t) ==
  IF remoteBooks # <<>>
    THEN [ss EXCEPT !.lastSynced = t, !.isSyncing = FALSE]
    ELSE ss

PulledSyncState(remoteBooks, ss, t) ==
  IF remoteBooks # <<>>
    THEN [ss EXCEPT !.lastSynced = t, !.isSyncing = FALSE]
    ELSE [ss EXCEPT !.isSyncing = FALSE]

\* A pull resolves with a snapshot or with null (lines 57-63).
PullResolve(i, remoteBooks) ==
  /\ Budget
  /\ i \in 1..Len(pulls)
  /\ books' = PulledBooks(remoteBooks, books)
  /\ syncState' = PulledSyncState(remoteBooks, syncState, now)
  /\ pulls' = RemoveAt(pulls, i)
  /\ event' = Event(IF remoteBooks # <<>> THEN "PullApplied" ELSE "PullAbsent",
                    0, <<>>, remoteBooks, pulls[i])
  /\ UNCHANGED <<selectedBook, activeChapter, status, showUploader,
                 showSyncModal, localStorage, mounted, now, pushes, uploads,
                 gens, timers, downgraded>>

\* syncState after the catch block of lines 64-70.
\* PullFailedSyncState with a fault: every error downgrades the provider.
PullFailedSyncStateDowngrading(err, ss) ==
  [ss EXCEPT !.provider = "none", !.isSyncing = FALSE]

PullFailedSyncState(err, ss) ==
  IF err = "UNAUTHORIZED"
    THEN [ss EXCEPT !.provider = "none", !.isSyncing = FALSE]
    ELSE [ss EXCEPT !.isSyncing = FALSE]

\* A pull rejects (lines 64-70); only the GitHub store answers UNAUTHORIZED.
\* The downgrade changes the provider, so the effect runs again.
PullReject(i, err) ==
  /\ Budget
  /\ i \in 1..Len(pulls)
  /\ err = "UNAUTHORIZED" => PullTarget(pulls[i].cfg) = "github"
  /\ LET r == RunEffect(syncState, PullFailedSyncState(err, syncState),
                        RemoveAt(pulls, i))
     IN /\ syncState' = r.syncState
        /\ pulls' = r.pulls
        /\ event' = Event(IF err = "UNAUTHORIZED" THEN "PullUnauthorized"
                                                  ELSE "PullError",
                          r.issued, <<>>, <<>>, pulls[i])
  /\ downgraded' = IF err = "UNAUTHORIZED" THEN TRUE ELSE downgraded
  /\ UNCHANGED <<books, selectedBook, activeChapter, status,
                 showUploader, showSyncModal, localStorage, mounted, now,
                 pushes, uploads, gens, timers>>

\* Partial<SyncState> values the sync modal hands to handleSyncUpdate; Keep
\* marks a key the partial state does not hold.
Keep == "keep"
NewStates ==
  { [provider |-> "public", roomId |-> OtherRoom, githubToken |-> Keep, gistId |-> Keep],
    [provider |-> "github", roomId |-> Keep, githubToken |-> Token, gistId |-> Gist],
    [provider |-> "github", roomId |-> Keep, githubToken |-> Keep, gistId |-> Keep],
    [provider |-> "none", roomId |-> Keep, githubToken |-> Keep, gistId |-> Keep],
    [provider |-> Keep, roomId |-> Keep, githubToken |-> Token, gistId |-> Keep] }

\* { ...syncState, ...newState } (line 81).
Merged(ss, newState) ==
  [k \in DOMAIN ss |->
     IF k \in DOMAIN newState /\ newState[k] # Keep THEN newState[k] ELSE ss[k]]

\* localStorage after lines 84-89.
StoredAfter(ls, updated) ==
  [provider |-> IF updated.provider # Null THEN updated.provider ELSE ls.provider,
   roomId |-> IF updated.roomId # Null THEN updated.roomId ELSE ls.roomId,
   githubToken |-> updated.githubToken,
   gistId |-> updated.gistId]

\* handleSyncUpdate (lines 80-95), followed by the effect when the
\* configuration changed. The timeout keeps the refreshLibrary of the render
\* the handler was created in, that is the configuration before the update.
HandleSyncUpdate(newState) ==
  /\ Budget
  /\ mounted
  /\ showSyncModal
  /\ Len(timers) < MaxTimers
  /\ LET updated == Merged(syncState, newState)
         r == RunEffect(syncState, updated, pulls)
     IN /\ r.issued = 0 \/ InFlight < MaxInFlight
        /\ syncState' = r.syncState
        /\ pulls' = r.pulls
        /\ localStorage' = StoredAfter(localStorage, updated)
        /\ event' = Event("HandleSyncUpdate", r.issued, <<>>, <<>>, <<>>)
  /\ showSyncModal' = FALSE
  /\ timers' = Append(timers, Config(syncState))
  /\ downgraded' = FALSE
  /\ UNCHANGED <<books, selectedBook, activeChapter, status, showUploader,
                 mounted, now, pushes, uploads, gens>>

\* The timeout of line 94 fires: refreshLibrary() of the old render.
TimerFire(i) ==
  /\ Budget
  /\ i \in 1..Len(timers)
  /\ LET r == RefreshLibrary(timers[i], FALSE, syncState, pulls)
     IN /\ r.issued = 0 \/ InFlight < MaxInFlight
        /\ syncState' = r.syncState
        /\ pulls' = r.pulls
        /\ event' = Event("TimerFire", r.issued, <<>>, <<>>, <<>>)
  /\ timers' = RemoveAt(timers, i)
  /\ UNCHANGED <<books, selectedBook, activeChapter, status,
                 showUploader, showSyncModal, localStorage, mounted, now,
                 pushes, uploads, gens, downgraded>>

\* The buttons of lines 251 and 275, and the modal's onClose (line 369).
SetShowSyncModal(v) ==
  /\ Budget
  /\ mounted
  /\ showSyncModal # v
  /\ showSyncModal' = v
  /\ event' = NoEvent
  /\ UNCHANGED <<books, syncState, selectedBook,
                 activeChapter, status, showUploader, localStorage, mounted,
                 now, pulls, pushes, uploads, gens, timers, downgraded>>

\* persistLibrary(updatedBooks) up to its await, run with closure
\* configuration cfg (lines 98-105): with no remote store to push to, nothing
\* is awaited and line 105 runs at once.
PersistLibrary(cfg, ss, ps, t) ==
  IF PushTarget(cfg) # "none"
    THEN [syncState |-> ss, pushes |-> Append(ps, PushTarget(cfg))]
    ELSE [syncState |-> [ss EXCEPT !.lastSynced = t], pushes |-> ps]

\* A push resolves (line 105).
PushResolve(i) ==
  /\ Budget
  /\ i \in 1..Len(pushes)
  /\ syncState' = [syncState EXCEPT !.lastSynced = now]
  /\ pushes' = RemoveAt(pushes, i)
  /\ event' = Event("PushDone", 0, <<>>, <<>>, <<>>)
  /\ UNCHANGED <<books, selectedBook, activeChapter, status,
                 showUploader, showSyncModal, localStorage, mounted, now,
                 pulls, uploads, gens, timers, downgraded>>

\* syncState after the catch block of persistLibrary (lines 106-111).
PushFailedSyncState(err, ss) == ss

\* A push rejects (lines 106-111); only the GitHub store answers UNAUTHORIZED.
\* PushFailedStatus with a fault: the failure leaves persistLibrary and lands
\* in the catch of its caller handleUpload (lines 147-151).
PushFailedStatusThrown(err, st) == ERROR

\* The processing status after the catch of persistLibrary (lines 106-111),
\* which rethrows nothing.
PushFailedStatus(err, st) == st

PushReject(i, err) ==
  /\ Budget
  /\ i \in 1..Len(pushes)
  /\ err = "UNAUTHORIZED" => pushes[i] = "github"
  /\ syncState' = PushFailedSyncState(err, syncState)
  /\ status' = PushFailedStatus(err, status)
  /\ showSyncModal' = IF err = "UNAUTHORIZED" THEN TRUE ELSE showSyncModal
  /\ pushes' = RemoveAt(pushes, i)
  /\ event' = Event(IF err = "UNAUTHORIZED" THEN "PushUnauthorized"
                                            ELSE "PushError",
                    0, <<>>, <<>>, <<>>)
  /\ UNCHANGED <<books, selectedBook, activeChapter,
                 showUploader, localStorage, mounted, now, pulls, uploads,
                 gens, timers, downgraded>>

\* books.filter(b => b.id !== id) (line 118).
\* WithoutBook with a fault: the comparison of the filter is inverted.
WithoutBookInverted(b, id) == SelectSeq(b, LAMBDA x : x.id = id)

WithoutBook(b, id) == SelectSeq(b, LAMBDA x : x.id # id)

BookIds(b) == { b[k].id : k \in 1..Len(b) }

\* Ids of remote books and of books uploaded at a time 1..MaxTime.
AllBookIds == {RemoteBookA.id, RemoteBookB.id} \cup (1..MaxTime)

\* handleDeleteBook, confirmed (lines 115-122); a declined confirmation
\* returns at line 117 and changes nothing.
HandleDeleteBook(id) ==
  /\ Budget
  /\ mounted
  /\ id \in BookIds(books)
  /\ LET updatedBooks == WithoutBook(books, id)
         r == PersistLibrary(Config(syncState), syncState, pushes, now)
     IN /\ Len(r.pushes) = Len(pushes) \/ InFlight < MaxInFlight
        /\ books' = updatedBooks
        /\ syncState' = r.syncState
        /\ pushes' = r.pushes
        /\ event' = Event("DeleteBook", 0, <<updatedBooks>>, <<>>,
                          [id |-> id, selected |-> selectedBook])
  /\ selectedBook' = IF selectedBook # <<>> /\ selectedBook[1].id = id
                       THEN <<>> ELSE selectedBook
  /\ pulls' = MarkMutated(pulls)
  /\ uploads' = MarkDeleted(uploads, id)
  /\ UNCHANGED <<activeChapter, status, showUploader, showSyncModal,
                 localStorage, mounted, now, gens, timers, downgraded>>

\* The buttons of lines 212 and 346, and the uploader's onClose (line 359).
SetShowUploader(v) ==
  /\ Budget
  /\ mounted
  /\ showUploader # v
  /\ showUploader' = v
  /\ event' = NoEvent
  /\ UNCHANGED <<books, syncState, selectedBook,
                 activeChapter, status, showSyncModal, localStorage, mounted,
                 now, pulls, pushes, uploads, gens, timers, downgraded>>

\* handleUpload up to its await (lines 125-128); the uploader is rendered
\* only while showUploader holds (line 357).
HandleUpload ==
  /\ Budget
  /\ mounted
  /\ showUploader
  /\ InFlight < MaxInFlight
  /\ Len(books) < MaxBooks
  /\ status' = EXTRACTING
  /\ uploads' = Append(uploads, [books |-> books, cfg |-> Config(syncState),
                                 deleted |-> {}])
  /\ event' = NoEvent
  /\ UNCHANGED <<books, syncState, selectedBook,
                 activeChapter, showUploader, showSyncModal, localStorage,
                 mounted, now, pulls, pushes, gens, timers, downgraded>>

\* [newBook, ...books] (line 142).
WithNewBook(newBook, b) == <<newBook>> \o b

\* The extraction resolves with n chapters (lines 130-146): the new book is
\* prepended to the books of the handler's closure.
UploadResolve(i, n) ==
  /\ Budget
  /\ i \in 1..Len(uploads)
  /\ LET newBook == Book(now, n)
         updatedBooks == WithNewBook(newBook, uploads[i].books)
         r == PersistLibrary(uploads[i].cfg, syncState, pushes, now)
     IN /\ books' = updatedBooks
        /\ syncState' = r.syncState
        /\ pushes' = r.pushes
        /\ event' = Event("AddBook", 0, <<updatedBooks>>, <<>>, uploads[i])
  /\ showUploader' = FALSE
  /\ status' = IDLE
  /\ uploads' = RemoveAt(uploads, i)
  /\ pulls' = MarkMutated(pulls)
  /\ UNCHANGED <<selectedBook, activeChapter, showSyncModal, localStorage,
                 mounted, now, gens, timers, downgraded>>

\* The extraction rejects (lines 147-151).
UploadReject(i) ==
  /\ Budget
  /\ i \in 1..Len(uploads)
  /\ status' = ERROR
  /\ uploads' = RemoveAt(uploads, i)
  /\ event' = Event("UploadFailed", 0, <<>>, <<>>, <<>>)
  /\ UNCHANGED <<books, syncState, selectedBook,
                 activeChapter, showUploader, showSyncModal, localStorage,
                 mounted, now, pulls, pushes, gens, timers, downgraded>>

\* onSelectBook={setSelectedBook} (line 221) with a book of the Library.
SelectBook(k) ==
  /\ Budget
  /\ mounted
  /\ k \in 1..Len(books)
  /\ selectedBook # <<books[k]>>
  /\ selectedBook' = <<books[k]>>
  /\ event' = NoEvent
  /\ UNCHANGED <<books, syncState, activeChapter, status,
                 showUploader, showSyncModal, localStorage, mounted, now,
                 pulls, pushes, uploads, gens, timers, downgraded>>

\* The player's onClose (line 377).
ClosePlayer ==
  /\ Budget
  /\ mounted
  /\ activeChapter # <<>>
  /\ activeChapter' = <<>>
  /\ event' = NoEvent
  /\ UNCHANGED <<books, syncState, selectedBook, status,
                 showUploader, showSyncModal, localStorage, mounted, now,
                 pulls, pushes, uploads, gens, timers, downgraded>>

\* PlayedFromCache with a fault: the early return of lines 156-159 is missing.
PlayedFromCacheNever(chapter) == FALSE

\* The test of line 156: the chapter already has its audio.
PlayedFromCache(chapter) == chapter.audioUrl # Null

\* handleChapterPlay up to its await (lines 155-163), from the play button of
\* a chapter of the selected book (lines 296, 313-315): the button is
\* disabled while status is GENERATING_AUDIO.
HandleChapterPlay(k) ==
  /\ Budget
  /\ mounted
  /\ selectedBook # <<>>
  /\ k \in 1..Len(selectedBook[1].chapters)
  /\ status # GENERATING_AUDIO
  /\ LET chapter == selectedBook[1].chapters[k]
     IN IF PlayedFromCache(chapter)
          THEN /\ activeChapter' = <<chapter>>
               /\ event' = Event("ChapterPlay", 0, <<>>, <<>>, chapter)
               /\ UNCHANGED <<status, gens>>
          ELSE /\ InFlight < MaxInFlight
               /\ status' = GENERATING_AUDIO
               /\ gens' = Append(gens, [chapter |-> chapter, books |-> books,
                                        selectedBook |-> selectedBook])
               /\ event' = Event("ChapterPlay", 0, <<>>, <<>>, chapter)
               /\ UNCHANGED activeChapter
  /\ UNCHANGED <<books, syncState, selectedBook,
                 showUploader, showSyncModal, localStorage, mounted, now,
                 pulls, pushes, uploads, timers, downgraded>>

\* b.chapters.map(c => c.id === chapter.id ? { ...c, audioUrl } : c) (lines 168-170).
WithAudio(chs, chapterId, audioUrl) ==
  [j \in 1..Len(chs) |->
     IF chs[j].id = chapterId THEN [chs[j] EXCEPT !.audioUrl = audioUrl]
                              ELSE chs[j]]

\* updatedBooks of lines 166-176: the map runs over the books of the closure.
AttachAudio(b, sel, chapterId, audioUrl) ==
  [j \in 1..Len(b) |->
     IF sel # <<>> /\ b[j].id = sel[1].id
       THEN [b[j] EXCEPT !.chapters = WithAudio(@, chapterId, audioUrl)]
       ELSE b[j]]

\* Positions of the books line 172 hands to setSelectedBook.
Matching(b, sel) == { j \in 1..Len(b) : sel # <<>> /\ b[j].id = sel[1].id }

Max(S) == CHOOSE x \in S : \A y \in S : y <= x
Min(S) == CHOOSE x \in S : \A y \in S : x <= y

\* currentChapter of lines 181-183, as <<>> or <<chapter>>.
CurrentChapter(updatedBooks, sel, chapterId) ==
  LET m == Matching(updatedBooks, sel)
  IN IF m = {} THEN <<>>
     ELSE LET chs == updatedBooks[Min(m)].chapters
              hit == { j \in 1..Len(chs) : chs[j].id = chapterId }
          IN IF hit = {} THEN <<>> ELSE <<chs[Min(hit)]>>

\* The book and chapter a generation is for are both in Library b.
TargetIn(b, g) ==
  \E j \in 1..Len(b) :
    /\ g.selectedBook # <<>>
    /\ b[j].id = g.selectedBook[1].id
    /\ \E c \in 1..Len(b[j].chapters) : b[j].chapters[c].id = g.chapter.id

\* The generation resolves (lines 165-187).
GenResolve(i, audioUrl) ==
  /\ Budget
  /\ i \in 1..Len(gens)
  /\ LET g == gens[i]
         updatedBooks == AttachAudio(g.books, g.selectedBook, g.chapter.id, audioUrl)
         m == Matching(updatedBooks, g.selectedBook)
         currentChapter == CurrentChapter(updatedBooks, g.selectedBook, g.chapter.id)
     IN /\ books' = updatedBooks
        /\ selectedBook' = IF m = {} THEN selectedBook ELSE <<updatedBooks[Max(m)]>>
        /\ activeChapter' = IF currentChapter # <<>> THEN currentChapter
                                                     ELSE activeChapter
        /\ event' = Event("AttachAudio", 0, <<>>, <<>>, g)
  /\ status' = IDLE
  /\ gens' = RemoveAt(gens, i)
  /\ pulls' = MarkMutated(pulls)
  /\ UNCHANGED <<syncState, showUploader, showSyncModal, localStorage,
                 mounted, now, pushes, uploads, timers, downgraded>>

\* The generation rejects (lines 188-192).
\* GenFailedStatus with a fault: the failure is swallowed and the status stays.
GenFailedStatusKept(st) == st

\* The status after the catch of lines 188-192.
GenFailedStatus(st) == ERROR

GenReject(i) ==
  /\ Budget
  /\ i \in 1..Len(gens)
  /\ status' = GenFailedStatus(status)
  /\ gens' = RemoveAt(gens, i)
  /\ event' = Event("GenFailed", 0, <<>>, <<>>, gens[i])
  /\ UNCHANGED <<books, syncState, selectedBook,
                 activeChapter, showUploader, showSyncModal, localStorage,
                 mounted, now, pulls, pushes, uploads, timers, downgraded>>

Next ==
  \/ Mount
  \/ Tick
  \/ IntervalTick
  \/ \E i \in 1..MaxInFlight :
       \E remoteBooks \in {<<>>} \cup {<<S>> : S \in RemoteSnapshots} :
         PullResolve(i, remoteBooks)
  \/ \E i \in 1..MaxInFlight, err \in {"UNAUTHORIZED", "NETWORK"} : PullReject(i, err)
  \/ \E newState \in NewStates : HandleSyncUpdate(newState)
  \/ \E i \in 1..MaxTimers : TimerFire(i)
  \/ \E v \in BOOLEAN : SetShowSyncModal(v)
  \/ \E i \in 1..MaxInFlight : PushResolve(i)
  \/ \E i \in 1..MaxInFlight, err \in {"UNAUTHORIZED", "NETWORK"} : PushReject(i, err)
  \/ \E id \in AllBookIds : HandleDeleteBook(id)
  \/ \E v \in BOOLEAN : SetShowUploader(v)
  \/ HandleUpload
  \/ \E i \in 1..MaxInFlight, n \in {1} : UploadResolve(i, n)
  \/ \E i \in 1..MaxInFlight : UploadReject(i)
  \/ \E k \in 1..MaxBooks + 1 : SelectBook(k)
  \/ ClosePlayer
  \/ \E k \in 1..2 : HandleChapterPlay(k)
  \/ \E i \in 1..MaxInFlight : GenResolve(i, AudioUrl)
  \/ \E i \in 1..MaxInFlight : GenReject(i)

Spec == Init /\ [][Next]_vars

\* ------------------------------------------------------------------ claims

\* C1: at most one audio generation is outstanding at any time.
C1_OneGenerationOutstanding == Len(gens) <= 1

\* C2: a pull that completes after the configuration it was issued under has
\* been replaced leaves the Library and lastSynced as they were.
C2_StalePullDiscarded ==
  [][(/\ event'.kind \in {"PullApplied", "PullAbsent"}
      /\ event'.req.cfg # Config(syncState))
     => (/\ books' = books
         /\ syncState'.lastSynced = syncState.lastSynced)]_vars

\* C3: at most one pull is in flight at any time.
C3_OnePullInFlight == Len(pulls) <= 1

\* C4: a generation that succeeds after its book or chapter has left the
\* Library leaves the Library exactly as it was.
C4_AttachToMissingIsNoOp ==
  [][(event'.kind = "AttachAudio" /\ ~TargetIn(books, event'.req))
     => books' = books]_vars

\* C5: each applied AddBook, DeleteBook and AttachAudio mutation hands the new
\* Library to persistLibrary.
C5_EveryMutationPushes ==
  event.kind \in {"AddBook", "DeleteBook", "AttachAudio"}
    => event.pushed = <<books>>

\* C6: the snapshot handed to persistLibrary holds the effect of every local
\* mutation applied before: a book deleted while an extraction was pending,
\* and still absent from the Library, is absent from the snapshot pushed when
\* the upload completes; a delete pushes the Library without the deleted book.
C6_PushReflectsMutations ==
  [][/\ event'.kind = "AddBook"
        => \A id \in event'.req.deleted :
             id \notin BookIds(books) => id \notin BookIds(event'.pushed[1])
     /\ event'.kind = "DeleteBook"
        => \E id \in BookIds(books) : event'.pushed[1] = WithoutBook(books, id)]_vars

\* C7: a push that fails UNAUTHORIZED makes the provider 'none' and shows the
\* sync modal.
C7_UnauthorizedPushDowngrades ==
  event.kind = "PushUnauthorized"
    => (syncState.provider = "none" /\ showSyncModal)

\* C8: a pull that fails UNAUTHORIZED makes the provider 'none' and leaves the
\* Library alone, and until the user reconfigures no step issues a remote
\* pull request.
C8_UnauthorizedPullDowngrades ==
  [][/\ event'.kind = "PullUnauthorized"
        => (syncState'.provider = "none" /\ books' = books)
     /\ (downgraded /\ downgraded') => event'.issued = 0]_vars

\* A step in which refreshLibrary ends with remoteBooks null: a pull resolved
\* with null, or refreshLibrary ran with no store to pull from.
AbsentPull(e, cfg) ==
  \/ e.kind = "PullAbsent"
  \/ e.kind \in {"Mount", "IntervalTick"} /\ PullTarget(cfg) = "none"

\* C9: a pull that returns absent leaves the Library, lastSynced and the
\* provider unchanged, raises no error (status and the sync modal are left
\* alone) and ends with isSyncing false.
C9_AbsentPullLeavesState ==
  [][AbsentPull(event', Config(syncState))
     => (/\ books' = books
         /\ syncState'.lastSynced = syncState.lastSynced
         /\ Config(syncState') = Config(syncState)
         /\ syncState'.isSyncing = FALSE
         /\ status' = status
         /\ showSyncModal' = showSyncModal)]_vars

\* C9 witness: a pull resolved with null while the Library held books and a
\* synchronisation time.
C9_Witness ==
  /\ event.kind = "PullAbsent"
  /\ books # <<>>
  /\ syncState.lastSynced # NoTime

\* C10: a pull that resolves with a snapshot S makes the Library exactly S
\* and sets lastSynced to the time of completion.
C10_WholesaleReplacement ==
  [][event'.kind = "PullApplied"
     => (/\ books' = event'.pulled[1]
         /\ syncState'.lastSynced = now)]_vars

\* C10 witness: a pull resolved with a snapshot other than the Library it
\* replaced, after a local mutation applied while the pull was in flight.
C10_Witness ==
  /\ event.kind = "PullApplied"
  /\ event.req.mutated
  /\ books = event.pulled[1]

\* C11: handleChapterPlay on a chapter that has its audio starts no
\* generation, leaves the status and the Library alone and makes that chapter,
\* with the same audio reference, the active chapter; played again at once it
\* gives the same active chapter.
C11_CachedPlayGeneratesNothing ==
  [][(event'.kind = "ChapterPlay" /\ event'.req.audioUrl # Null)
     => (/\ gens' = gens
         /\ status' = status
         /\ books' = books
         /\ selectedBook' = selectedBook
         /\ activeChapter' = <<event'.req>>
         /\ (event.kind = "ChapterPlay" /\ event.req.id = event'.req.id)
              => activeChapter' = activeChapter)]_vars

\* C11 witness: a chapter whose audio was generated earlier has been played
\* from its stored reference.
C11_Witness ==
  /\ event.kind = "ChapterPlay"
  /\ event.req.audioUrl = AudioUrl
  /\ activeChapter = <<event.req>>
  /\ gens = <<>>

\* C12: a failed generation request sets the status to ERROR, stores no audio
\* reference (the Library, the selection and the active chapter are as they
\* were), issues no push and starts no new generation or other request.
C12_GenerationFailure ==
  [][event'.kind = "GenFailed"
     => (/\ status' = ERROR
         /\ books' = books
         /\ selectedBook' = selectedBook
         /\ activeChapter' = activeChapter
         /\ pushes' = pushes
         /\ event'.pushed = <<>>
         /\ event'.issued = 0
         /\ Len(gens') = Len(gens) - 1)]_vars

\* C12 witness: the request for a chapter of the Library failed; the chapter
\* has no audio and the status is ERROR.
C12_Witness ==
  /\ event.kind = "GenFailed"
  /\ status = ERROR
  /\ gens = <<>>
  /\ \E j \in 1..Len(books) : \E c \in 1..Len(books[j].chapters) :
        /\ books[j].chapters[c].id = event.req.chapter.id
        /\ books[j].chapters[c].audioUrl = Null

\* The chapters of the Library b that carry an audio reference, each with the
\* id of its book and its reference.
AudioSet(b) ==
  UNION { { <<b[j].id, b[j].chapters[c].id, b[j].chapters[c].audioUrl>> :
              c \in { d \in 1..Len(b[j].chapters) :
                        b[j].chapters[d].audioUrl # Null } } :
          j \in 1..Len(b) }

\* C13: a step that is neither the application of a pulled snapshot nor the
\* deletion of the chapter's book leaves every audio reference of the Library
\* in place.
C13_AudioNeverCleared ==
  [][event'.kind # "PullApplied"
     => \A a \in AudioSet(books) :
          \/ a \in AudioSet(books')
          \/ event'.kind = "DeleteBook" /\ a[1] \notin BookIds(books')]_vars

\* C14: a completed upload makes the Library the new book followed by the
\* books that were in the Library just before the step, in the same order.
C14_AddBookPrepends ==
  [][event'.kind = "AddBook"
     => (/\ Len(books') = Len(books) + 1
         /\ Tail(books') = books)]_vars

\* C15: a handleSyncUpdate that changes the provider, the room or a
\* credential leaves lastSynced at null (never synced).
C15_ReconfigurationResets ==
  [][(event'.kind = "HandleSyncUpdate" /\ Config(syncState') # Config(syncState))
     => syncState'.lastSynced = NoTime]_vars

\* C16: a failed push, transient or UNAUTHORIZED, rolls nothing back: the
\* Library and the selection keep the mutated value, and the failure does not
\* leave persistLibrary (the processing status of its caller is untouched).
C16_LocalFirst ==
  [][event'.kind \in {"PushError", "PushUnauthorized"}
     => (/\ books' = books
         /\ selectedBook' = selectedBook
         /\ status' = status)]_vars

\* C16 witness: the push of an upload failed and the uploaded book is still
\* the head of the Library.
C16_Witness ==
  /\ event.kind \in {"PushError", "PushUnauthorized"}
  /\ books # <<>>
  /\ books[1].id \in 1..MaxTime
  /\ pushes = <<>>
  /\ status = IDLE

\* The books of b other than those with the given id, in the order of b.
RECURSIVE Others(_, _)
Others(b, id) ==
  IF b = <<>> THEN <<>>
  ELSE IF Head(b).id = id THEN Others(Tail(b), id)
  ELSE <<Head(b)>> \o Others(Tail(b), id)

\* C17: a confirmed handleDeleteBook(id) leaves exactly the books whose id is
\* not id, in their order; the selection becomes unset if the selected book
\* has that id and is unchanged otherwise.
C17_DeletionByIdentity ==
  [][event'.kind = "DeleteBook"
     => (/\ books' = Others(books, event'.req.id)
         /\ \A j \in 1..Len(books') : books'[j].id # event'.req.id
         /\ selectedBook' =
              IF selectedBook # <<>> /\ selectedBook[1].id = event'.req.id
                THEN <<>> ELSE selectedBook)]_vars

\* C17 witness: the first of two books, which was the selected book, has been
\* deleted; the second is left and nothing is selected.
C17_Witness ==
  /\ event.kind = "DeleteBook"
  /\ event.req.id = RemoteBookA.id
  /\ event.req.selected # <<>>
  /\ event.req.selected[1].id = event.req.id
  /\ books = <<RemoteBookB>>
  /\ selectedBook = <<>>

\* C18: in every reachable SyncState the credential githubToken and the
\* resource id gistId are both set or both unset.
C18_CredentialPairing ==
  (syncState.githubToken = Null) <=> (syncState.gistId = Null)

\* C19: a pull that fails with an error other than UNAUTHORIZED leaves the
\* Library, the provider and lastSynced as they were, ends with isSyncing
\* false and raises nothing (status and sync modal untouched); an interval
\* tick that follows issues a pull again, to the store that is configured.
C19_TransientPullFailure ==
  [][/\ event'.kind = "PullError"
        => (/\ books' = books
            /\ Config(syncState') = Config(syncState)
            /\ syncState'.lastSynced = syncState.lastSynced
            /\ syncState'.isSyncing = FALSE
            /\ status' = status
            /\ showSyncModal' = showSyncModal
            /\ event'.issued = 0)
     /\ (/\ event.kind = "PullError"
         /\ event'.kind = "IntervalTick"
         /\ PullTarget(Config(syncState)) # "none")
        => (/\ event'.issued = 1
            /\ Len(pulls') = Len(pulls) + 1
            /\ pulls'[Len(pulls')].cfg = Config(syncState))]_vars

\* C19 witness: a pull failed with a network error after an earlier pull had
\* filled the Library; the Library and lastSynced are still there.
C19_Witness ==
  /\ event.kind = "PullError"
  /\ books # <<>>
  /\ syncState.lastSynced # NoTime
  /\ syncState.provider = "public"
  /\ syncState.isSyncing = FALSE

\* C20: every completion of refreshLibrary, by a snapshot, by an absent
\* result or by an error, leaves isSyncing false; and whenever no pull is in
\* flight isSyncing is false.
C20_PullCycleReturnsToIdle ==
  [][/\ event'.kind \in {"PullApplied", "PullAbsent", "PullError",
                           "PullUnauthorized"}
        => syncState'.isSyncing = FALSE
     /\ pulls' = <<>> => syncState'.isSyncing = FALSE]_vars

\* C20 witness: the pull that had set isSyncing ended with an absent result,
\* none is in flight and isSyncing is false.
C20_Witness ==
  /\ event.kind = "PullAbsent"
  /\ pulls = <<>>
  /\ syncState.isSyncing = FALSE

\* C21: whenever a book is selected, the Library holds a book with the same
\* id and the selected copy equals that entry, chapters and audio references
\* included.
C21_SelectionConsistent ==
  selectedBook # <<>>
    => \E j \in 1..Len(books) :
         /\ books[j].id = selectedBook[1].id
         /\ books[j] = selectedBook[1]

====
